---------------------------- MODULE Spec2Model ----------------------------
(***************************************************************************)
(* A model of ChatGPT-archive-parser.py: the conversation tree walk        *)
(* (get_conversation_messages), the message filter and author mapping,     *)
(* the record shaper (extract_conversations_to_df), the transcript writer  *)
(* (write_messages_to_file), the title sanitizer (sanitize_title) and the  *)
(* top-level run (process_conversations).                                  *)
(*                                                                         *)
(* Python dictionaries are functions with string domains; d.get(k, dflt)   *)
(* is Get(d, k, dflt).  A JSON null or absent dictionary is the empty      *)
(* dictionary (the code only ever tests such a value for truthiness).      *)
(* None for a string-valued field is the sentinel None.                    *)
(***************************************************************************)
EXTENDS Integers, Sequences, FiniteSets, TLC

VARIABLES
    pc,                 \* position of the running function
    conversation,       \* get_conversation_messages: its argument
    current_node,       \* get_conversation_messages: local current_node
    messages,           \* get_conversation_messages: local messages
    iterations,         \* number of executions of the while-loop body
    walk_result,        \* get_conversation_messages: the returned list
    archive,            \* the input file: whether it loads, and the JSON in it
    db_fault,           \* the step of save_to_database that fails, if any
    conversations_data, \* process_conversations: local conversations_data
    conv_index,         \* extract_conversations_to_df: position of the for loop
    conversation_records, \* extract_conversations_to_df: local conversation_records
    message_records,    \* extract_conversations_to_df: local message_records
    db,                 \* the tables of the database
    files,              \* the transcript files on disk
    outcome,            \* process_conversations: "running", "returned" or "raised"
    returned,           \* process_conversations: the returned list
    file_messages,      \* write_messages_to_file: its argument messages
    write_index,        \* write_messages_to_file: position of the for loop
    file_text,          \* the characters of the transcript file
    title,              \* sanitize_title: the title given
    once,               \* sanitize_title(title)
    twice               \* sanitize_title(sanitize_title(title))

walkVars == <<conversation, current_node, messages, iterations, walk_result>>

runVars == <<archive, db_fault, conversations_data, conv_index, conversation_records,
             message_records, db, files, outcome, returned>>

writeVars == <<file_messages, write_index, file_text>>

titleVars == <<title, once, twice>>

vars == <<pc, walkVars, runVars, writeVars, titleVars>>

-----------------------------------------------------------------------------
(* Python values *)

None == "<None>"

EmptyDict == [k \in {} |-> k]

Get(d, k, dflt) == IF k \in DOMAIN d THEN d[k] ELSE dflt

\* truthiness of a dictionary (None is modelled as the empty dictionary)
TruthyDict(d) == DOMAIN d # {}

\* truthiness of a string or None
TruthyStr(s) == s # None /\ s # ""

Reverse(s) == [i \in 1..Len(s) |-> s[Len(s) + 1 - i]]

\* datetime.fromtimestamp: a structured timestamp built from epoch seconds
FromTimestamp(t) == [datetime |-> t]

-----------------------------------------------------------------------------
(* Bounds of the model *)

MaxNodes == 3
MaxChain == 2
MaxConversations == 2

NodeNames == <<"A", "B", "C", "D", "E">>
NodeIds == {NodeNames[i] : i \in 1..MaxNodes}
\* an id that is never a key of a mapping
GhostId == "Z"

-----------------------------------------------------------------------------
(* The message filter / normalizer *)

extract_message_parts(message) ==
    LET content == Get(message, "content", EmptyDict)
    IN  IF TruthyDict(content) /\ Get(content, "content_type", None) = "text"
        THEN Get(content, "parts", <<>>)
        ELSE <<>>

\* the raw role, with no display name table
get_author_name_raw(message) ==
    Get(Get(message, "author", EmptyDict), "role", "")

get_author_name(message) ==
    LET author == Get(Get(message, "author", EmptyDict), "role", "")
    IN  CASE author = "assistant" -> "ChatGPT"
          [] author = "system" -> "Custom user info"
          [] OTHER -> author

\* the condition of the if statement on lines 79-81, given the locals
IncludeCondition(message, parts, author) ==
    /\ parts # <<>>
    /\ TruthyStr(parts[1])
    /\ \/ author # "system"
       \/ Get(Get(message, "metadata", EmptyDict), "is_user_system_message", FALSE)

\* the dictionary appended on lines 83-91
NormalizedMessage(message, parts, author) ==
    [author |-> author,
     text |-> parts[1],
     create_time |-> FromTimestamp(Get(message, "create_time", 0)),
     update_time |-> FromTimestamp(Get(message, "update_time", 0))]

\* a loop body whose continue on line 74 forgets to move to the parent
LoopBodyNoAdvance(mapping, cur, msgs) ==
    LET node == Get(mapping, cur, EmptyDict)
        message == Get(node, "message", EmptyDict)
        parts == extract_message_parts(message)
        author == get_author_name(message)
    IN  IF ~TruthyDict(message)
        THEN [current_node |-> cur, messages |-> msgs]
        ELSE [current_node |-> Get(node, "parent", None),
              messages |-> IF IncludeCondition(message, parts, author)
                           THEN Append(msgs, NormalizedMessage(message, parts, author))
                           ELSE msgs]

\* one execution of the body of the while loop (lines 69-93):
\* the new values of the locals current_node and messages
LoopBody(mapping, cur, msgs) ==
    LET node == Get(mapping, cur, EmptyDict)
        message == Get(node, "message", EmptyDict)
        parts == extract_message_parts(message)
        author == get_author_name(message)
    IN  IF ~TruthyDict(message)
        THEN [current_node |-> Get(node, "parent", None), messages |-> msgs]
        ELSE [current_node |-> Get(node, "parent", None),
              messages |-> IF IncludeCondition(message, parts, author)
                           THEN Append(msgs, NormalizedMessage(message, parts, author))
                           ELSE msgs]


\* the whole function on an acyclic mapping: the loop run to its exit (lines 64-95)
RECURSIVE RunLoop(_, _, _)
RunLoop(mapping, cur, msgs) ==
    IF TruthyStr(cur)
    THEN LET nxt == LoopBody(mapping, cur, msgs)
         IN  RunLoop(mapping, nxt.current_node, nxt.messages)
    ELSE Reverse(msgs)

get_conversation_messages(conv) ==
    RunLoop(Get(conv, "mapping", EmptyDict), Get(conv, "current_node", None), <<>>)

-----------------------------------------------------------------------------
(* Inputs of the tree walk *)

\* a user message with timestamps, and a system message that carries no flag
UserMessage ==
    [author |-> [role |-> "user"],
     content |-> [content_type |-> "text", parts |-> <<"hi">>],
     create_time |-> 5, update_time |-> 6]

SystemMessage ==
    [author |-> [role |-> "system"],
     content |-> [content_type |-> "text", parts |-> <<"sys">>],
     metadata |-> EmptyDict]

\* the payload of node n in an arbitrary graph: its text names the node
NodeMessage(n) ==
    CASE n = "A" -> UserMessage
      [] n = "B" -> [author |-> [role |-> "assistant"],
                     content |-> [content_type |-> "text", parts |-> <<"at B">>]]
      [] n = "C" -> SystemMessage
      [] OTHER -> [author |-> [role |-> "tool"],
                   content |-> [content_type |-> "text", parts |-> <<"at D">>],
                   create_time |-> 8]

GraphParents == NodeIds \cup {None, GhostId}

\* the mapping over the node ids whose nodes in P carry a payload, with parents par
GraphMapping(P, par) ==
    [n \in NodeIds |->
        [message |-> IF n \in P THEN NodeMessage(n) ELSE EmptyDict,
         parent |-> par[n]]]

\* message payloads covering the cases of the filter
Roles == {"user", "assistant", "system", "<absent>"}
Contents == {"<absent>", "code", "no_parts", "blank", "text"}
Flags == {"<absent>", "false", "true"}

AuthorField(r) ==
    IF r = "<absent>" THEN EmptyDict ELSE "author" :> [role |-> r]

ContentField(c) ==
    CASE c = "<absent>" -> EmptyDict
      [] c = "code" -> "content" :> [content_type |-> "code", parts |-> <<"x = 1">>]
      [] c = "no_parts" -> "content" :> [content_type |-> "text", parts |-> <<>>]
      [] c = "blank" -> "content" :> [content_type |-> "text", parts |-> <<"", "tail">>]
      [] OTHER -> "content" :> [content_type |-> "text", parts |-> <<"hello", "tail">>]

MetadataField(f) ==
    CASE f = "<absent>" -> EmptyDict
      [] f = "false" -> "metadata" :> [is_user_system_message |-> FALSE]
      [] OTHER -> "metadata" :> [is_user_system_message |-> TRUE]

RawMessage(r, c, f) ==
    AuthorField(r) @@ ContentField(c) @@ MetadataField(f) @@ ("id" :> "m")

RawMessages == {RawMessage(r, c, f) : r \in Roles, c \in Contents, f \in Flags}

\* a linear history of k nodes: node i's parent is node i-1, the root has none
ChainNode(i, m) ==
    IF i = 1 THEN [message |-> m] ELSE [message |-> m, parent |-> NodeNames[i - 1]]

NodeIndex(n) == CHOOSE i \in 1..Len(NodeNames) : NodeNames[i] = n

\* the chain of k nodes that carry the payloads ms[1] (the root) to ms[k]
ChainConversation(k, ms) ==
    [current_node |-> NodeNames[k],
     mapping |-> [n \in {NodeNames[i] : i \in 1..k} |->
                     ChainNode(NodeIndex(n), ms[NodeIndex(n)])]]

\* conversations with no current_node, an empty one, or no mapping
DegenerateConversations ==
    {[mapping |-> [n \in {"A"} |-> [message |-> UserMessage]]],
     [current_node |-> "", mapping |-> [n \in {"A"} |-> [message |-> UserMessage]]],
     [current_node |-> "A"]}

\* the conversations the walk is run on
IsWalkInput(conv) ==
    \/ \E P \in SUBSET NodeIds, par \in [NodeIds -> GraphParents] :
          \E cur \in NodeIds \cup {None, GhostId} :
              conv = [current_node |-> cur, mapping |-> GraphMapping(P, par)]
    \/ \E k \in 1..MaxChain : \E ms \in [1..k -> RawMessages] :
          conv = ChainConversation(k, ms)
    \/ conv \in DegenerateConversations

-----------------------------------------------------------------------------
(* get_conversation_messages as a state machine *)

Mapping == Get(conversation, "mapping", EmptyDict)

\* the database before the run: the tables of an earlier run
OldDb ==
    [conversations |-> <<[conversation_id |-> "old"]>>,
     messages |-> <<[conversation_id |-> "old", author |-> "user", text |-> "old"]>>]

\* process_conversations is not running
RunIdle ==
    /\ archive = [status |-> "ok", data |-> <<>>]
    /\ db_fault = "none"
    /\ conversations_data = <<>>
    /\ conv_index = 1
    /\ conversation_records = <<>>
    /\ message_records = <<>>
    /\ db = OldDb
    /\ files = {}
    /\ outcome = "running"
    /\ returned = <<>>

\* get_conversation_messages is not running
WalkIdle ==
    /\ conversation = EmptyDict
    /\ current_node = None
    /\ messages = <<>>
    /\ iterations = 0
    /\ walk_result = <<>>

\* write_messages_to_file is not running
WriteIdle ==
    /\ file_messages = <<>>
    /\ write_index = 1
    /\ file_text = <<>>

\* sanitize_title is not running
TitleIdle ==
    /\ title = <<>>
    /\ once = <<>>
    /\ twice = <<>>

\* a cyclic mapping never leaves the loop: the model stops following it here
MaxIterations == Cardinality(DOMAIN Mapping) + 2

InitWalk ==
    /\ pc = "gcm_entry"
    /\ IsWalkInput(conversation)
    /\ current_node = None
    /\ messages = <<>>
    /\ iterations = 0
    /\ walk_result = <<>>
    /\ RunIdle
    /\ WriteIdle
    /\ TitleIdle

\* lines 64-66
GcmEntry ==
    /\ pc = "gcm_entry"
    /\ messages' = <<>>
    /\ current_node' = Get(conversation, "current_node", None)
    /\ pc' = "gcm_loop"
    /\ UNCHANGED <<conversation, iterations, walk_result>>
    /\ UNCHANGED <<runVars, writeVars, titleVars>>

\* lines 68-93: the loop condition holds, one execution of the body
GcmLoop ==
    /\ pc = "gcm_loop"
    /\ TruthyStr(current_node)
    /\ iterations < MaxIterations
    /\ LET nxt == LoopBody(Mapping, current_node, messages)
       IN  /\ current_node' = nxt.current_node
           /\ messages' = nxt.messages
    /\ iterations' = iterations + 1
    /\ UNCHANGED <<pc, conversation, walk_result>>
    /\ UNCHANGED <<runVars, writeVars, titleVars>>

\* lines 68 and 95: the loop condition fails, return messages[::-1]
GcmReturn ==
    /\ pc = "gcm_loop"
    /\ ~TruthyStr(current_node)
    /\ walk_result' = Reverse(messages)
    /\ pc' = "gcm_done"
    /\ UNCHANGED <<conversation, current_node, messages, iterations>>
    /\ UNCHANGED <<runVars, writeVars, titleVars>>

NextWalk == GcmEntry \/ GcmLoop \/ GcmReturn

WalkSpec == InitWalk /\ [][NextWalk]_vars

-----------------------------------------------------------------------------
(* The conversation graph, described without the loop *)

ParentOf(mapping, n) == Get(Get(mapping, n, EmptyDict), "parent", None)

PayloadOf(mapping, n) == Get(Get(mapping, n, EmptyDict), "message", EmptyDict)

\* the ids reached from id n by following parent links, n included
RECURSIVE UpClosure(_, _)
UpClosure(mapping, S) ==
    LET withParent == {m \in S : TruthyStr(ParentOf(mapping, m))}
        T == S \cup {ParentOf(mapping, n) : n \in withParent}
    IN  IF T = S THEN S ELSE UpClosure(mapping, T)

PathIds(mapping, n) == IF TruthyStr(n) THEN UpClosure(mapping, {n}) ELSE {}

\* the parent links form a tree: no node is its own proper ancestor
IsTree(mapping) ==
    \A n \in DOMAIN mapping : n \notin PathIds(mapping, ParentOf(mapping, n))

\* on a tree, the number of ids from n up to the root: 1 for the root
DepthOf(mapping, n) == Cardinality(PathIds(mapping, n))

RawRole(message) == Get(Get(message, "author", EmptyDict), "role", "")

IsFlagged(message) ==
    Get(Get(message, "metadata", EmptyDict), "is_user_system_message", FALSE)

\* the inclusion rule as the specification states it
Qualifies(message) ==
    LET parts == extract_message_parts(message)
    IN  /\ parts # <<>>
        /\ parts[1] # ""
        /\ (RawRole(message) # "system" \/ IsFlagged(message))

\* the display name table as the specification states it
DisplayName(role) ==
    IF role = "assistant" THEN "ChatGPT"
    ELSE IF role = "system" THEN "Custom user info"
    ELSE role

AuthorsAndTexts(msgs) ==
    [i \in 1..Len(msgs) |-> <<msgs[i].author, msgs[i].text>>]

\* what the if statement on lines 79-81 lets through
CodeKeeps(message) ==
    IncludeCondition(message, extract_message_parts(message), get_author_name(message))

\* the rule a transcript is described with: the stated one, or the code's
Keeps(rule, message) ==
    IF rule = "stated" THEN Qualifies(message) ELSE CodeKeeps(message)

\* the (author, text) pairs of the payloads on the path from cur to the root that
\* the rule keeps, root first; depth d runs from the root (1) to cur
RECURSIVE TranscriptUpTo(_, _, _, _)
TranscriptUpTo(mapping, cur, d, rule) ==
    IF d = 0 THEN <<>>
    ELSE LET here == {n \in PathIds(mapping, cur) :
                         /\ DepthOf(mapping, n) = d
                         /\ TruthyDict(PayloadOf(mapping, n))
                         /\ Keeps(rule, PayloadOf(mapping, n))}
             line(n) == <<DisplayName(RawRole(PayloadOf(mapping, n))),
                          extract_message_parts(PayloadOf(mapping, n))[1]>>
         IN  TranscriptUpTo(mapping, cur, d - 1, rule)
                 \o (IF here = {} THEN <<>> ELSE <<line(CHOOSE n \in here : TRUE)>>)

PathTranscript(conv, rule) ==
    LET mapping == Get(conv, "mapping", EmptyDict)
        cur == Get(conv, "current_node", None)
    IN  TranscriptUpTo(mapping, cur, DepthOf(mapping, cur), rule)

-----------------------------------------------------------------------------
(* Properties of the tree walk *)

WalkDone == pc = "gcm_done"

\* C1: on a tree, the walk returns exactly the qualifying messages of the nodes on
\* the path from current_node up to the root, root first; payload-less nodes
\* contribute nothing and do not end the walk; nothing off the path appears.
C1_PathTranscript ==
    (WalkDone /\ IsTree(Mapping))
        => AuthorsAndTexts(walk_result) = PathTranscript(conversation, "stated")

\* The same statement with the inclusion rule the code applies: the path, the order
\* and the skipping of payload-less nodes are as C1 says.
PathTranscriptOfCode ==
    (WalkDone /\ IsTree(Mapping))
        => AuthorsAndTexts(walk_result) = PathTranscript(conversation, "code")

\* the payload the loop body is about to visit
Visited == PayloadOf(Mapping, current_node)

VisitsPayload == pc = "gcm_loop" /\ TruthyStr(current_node) /\ TruthyDict(Visited)

\* C2: a visited message is included in the output iff its parts are non-empty, the
\* first part is non-empty and (its raw role is not "system" or its metadata flag
\* is_user_system_message is true).
C2_IncludedIffQualifies ==
    [][VisitsPayload =>
          ((Len(messages') = Len(messages) + 1) <=> Qualifies(Visited))]_vars

\* C8: the display author of an emitted message is a function of the raw role alone:
\* "assistant" gives "ChatGPT", "system" gives "Custom user info", any other role
\* is passed through, whatever made the message be included.
C8_AuthorFromRole ==
    [][(VisitsPayload /\ Len(messages') = Len(messages) + 1)
          => messages'[Len(messages')].author = DisplayName(RawRole(Visited))]_vars

\* a flagged system message was emitted as "Custom user info"
C8_Witness ==
    /\ WalkDone
    /\ DOMAIN Mapping = {"A"}
    /\ RawRole(PayloadOf(Mapping, "A")) = "system"
    /\ IsFlagged(PayloadOf(Mapping, "A"))
    /\ Len(walk_result) = 1
    /\ walk_result[1].author = "Custom user info"

\* C10: on a mapping without a cycle the loop body runs once per id on the parent
\* chain of current_node (an id that is no key of the mapping ends the chain), so at
\* most once per mapping node plus once; the walk is never stuck before it returns;
\* it returns the messages recorded so far, reversed; an absent or empty
\* current_node returns the empty sequence without entering the loop.
C10_WalkTerminates ==
    IsTree(Mapping) =>
        /\ iterations <= Cardinality(DOMAIN Mapping) + 1
        /\ WalkDone \/ ENABLED NextWalk
        /\ WalkDone =>
              /\ iterations =
                    Cardinality(PathIds(Mapping, Get(conversation, "current_node", None)))
              /\ walk_result = Reverse(messages)
              /\ ~TruthyStr(current_node)
              /\ ~TruthyStr(Get(conversation, "current_node", None))
                    => (walk_result = <<>> /\ iterations = 0)

\* the walk ran through every node of the mapping and ended at an id outside it
C10_Witness ==
    /\ WalkDone
    /\ IsTree(Mapping)
    /\ iterations = Cardinality(DOMAIN Mapping) + 1
    /\ iterations > 2
    /\ Len(walk_result) > 0

-----------------------------------------------------------------------------
(* extract_conversations_to_df and process_conversations *)

\* truthiness of conversation.get("update_time"): absent (None) and 0 are falsy
UpdatedIsTruthy(conv) ==
    IF "update_time" \in DOMAIN conv THEN conv["update_time"] # 0 ELSE FALSE

\* lines 148-157: the conversation-level record
ConversationRecord(conv) ==
    [conversation_id |-> Get(conv, "id", "Unknown"),
     title |-> Get(conv, "title", "Untitled"),
     create_time |-> FromTimestamp(Get(conv, "create_time", 0)),
     update_time |-> IF UpdatedIsTruthy(conv)
                     THEN FromTimestamp(conv["update_time"])
                     ELSE FromTimestamp(0)]

\* lines 160-168: the message-level records of one conversation
MessageRecords(conv) ==
    LET msgs == get_conversation_messages(conv)
    IN  [i \in 1..Len(msgs) |->
            [conversation_id |-> Get(conv, "id", "Unknown"),
             author |-> msgs[i].author,
             text |-> msgs[i].text,
             create_time |-> msgs[i].create_time,
             update_time |-> msgs[i].update_time]]

\* the for loop body without the test of lines 145-146
ExtractOneNoSkip(conv, crecs, mrecs) ==
    [conversation_records |-> Append(crecs, ConversationRecord(conv)),
     message_records |-> mrecs \o MessageRecords(conv)]

\* lines 144-168: one execution of the body of the for loop, on the two lists
ExtractOne(conv, crecs, mrecs) ==
    IF ~UpdatedIsTruthy(conv)
    THEN [conversation_records |-> crecs, message_records |-> mrecs]
    ELSE [conversation_records |-> Append(crecs, ConversationRecord(conv)),
          message_records |-> mrecs \o MessageRecords(conv)]

\* lines 140-173: the whole function
RECURSIVE ExtractFrom(_, _, _, _)
ExtractFrom(data, i, crecs, mrecs) ==
    IF i > Len(data)
    THEN [conversation_records |-> crecs, message_records |-> mrecs]
    ELSE LET nxt == ExtractOne(data[i], crecs, mrecs)
         IN  ExtractFrom(data, i + 1, nxt.conversation_records, nxt.message_records)

extract_conversations_to_df(data) == ExtractFrom(data, 1, <<>>, <<>>)

\* lines 11-18: the parsed JSON, or None (modelled as the empty list: the caller
\* only tests the value for truthiness)
load_json(file) == IF file.status = "ok" THEN file.data ELSE <<>>

\* an except clause that lets the exception through
ExceptReraise == [outcome |-> "raised", returned |-> <<>>]

\* lines 241-243: the except clause of process_conversations
ExceptClause == [outcome |-> "returned", returned |-> <<>>]

\* lines 189-202: the tables after save_to_database, and whether it raised
save_to_database(crecs, mrecs, tables, fault) ==
    CASE fault = "connect" -> [db |-> tables, raised |-> TRUE]
      [] fault = "conversations" -> [db |-> tables, raised |-> TRUE]
      [] fault = "messages" ->
            [db |-> [tables EXCEPT !.conversations = crecs], raised |-> TRUE]
      [] OTHER -> [db |-> [conversations |-> crecs, messages |-> mrecs], raised |-> FALSE]

-----------------------------------------------------------------------------
(* Inputs of a run *)

\* the example of the specification: A (user, "hi") <- B (assistant, "hello")
ExampleMapping ==
    [n \in {"A", "B"} |->
        IF n = "A"
        THEN [message |-> [author |-> [role |-> "user"],
                           content |-> [content_type |-> "text", parts |-> <<"hi">>]],
              parent |-> None]
        ELSE [message |-> [author |-> [role |-> "assistant"],
                           content |-> [content_type |-> "text", parts |-> <<"hello">>],
                           create_time |-> 9],
              parent |-> "A"]]

\* a payload-less root, a user message, and an abandoned sibling
BranchMapping ==
    [n \in {"A", "B", "C"} |->
        CASE n = "A" -> [parent |-> None]
          [] n = "B" -> [message |-> UserMessage, parent |-> "A"]
          [] OTHER -> [message |-> [author |-> [role |-> "assistant"],
                                    content |-> [content_type |-> "text",
                                                 parts |-> <<"dropped">>]],
                       parent |-> "A"]]

Graphs ==
    {[current_node |-> "B", mapping |-> ExampleMapping],
     [current_node |-> "B", mapping |-> BranchMapping],
     EmptyDict}

Headers ==
    {[id |-> "c1", title |-> "First", create_time |-> 3],
     [id |-> "c2", create_time |-> 4],
     EmptyDict}

UpdateTimes == {EmptyDict, "update_time" :> 0, "update_time" :> 7}

RawConversations == {h @@ u @@ g : h \in Headers, u \in UpdateTimes, g \in Graphs}

\* the input file: a JSON list of conversations, or a file that does not load
IsArchive(file) ==
    \/ \E k \in 0..MaxConversations : \E d \in [1..k -> RawConversations] :
          file = [status |-> "ok", data |-> d]
    \/ file = [status |-> "unreadable", data |-> <<>>]
    \/ file = [status |-> "invalid_json", data |-> <<>>]

DbFaults == {"none", "connect", "conversations", "messages"}

-----------------------------------------------------------------------------
(* process_conversations as a state machine *)

InitRun ==
    /\ pc = "pc_load"
    /\ IsArchive(archive)
    /\ db_fault \in DbFaults
    /\ conversations_data = <<>>
    /\ conv_index = 1
    /\ conversation_records = <<>>
    /\ message_records = <<>>
    /\ db = OldDb
    /\ files = {}
    /\ outcome = "running"
    /\ returned = <<>>
    /\ WalkIdle
    /\ WriteIdle
    /\ TitleIdle

\* lines 222-225
LoadJson ==
    /\ pc = "pc_load"
    /\ conversations_data' = load_json(archive)
    /\ pc' = "pc_check"
    /\ UNCHANGED <<walkVars, writeVars, titleVars>>
    /\ UNCHANGED <<archive, db_fault, conv_index, conversation_records,
                   message_records, db, files, outcome, returned>>

\* lines 226-227: no data, return []
ReturnNoData ==
    /\ pc = "pc_check"
    /\ conversations_data = <<>>
    /\ outcome' = "returned"
    /\ returned' = <<>>
    /\ pc' = "pc_done"
    /\ UNCHANGED <<walkVars, writeVars, titleVars>>
    /\ UNCHANGED <<archive, db_fault, conversations_data, conv_index,
                   conversation_records, message_records, db, files>>

\* lines 229 and 140-141: enter extract_conversations_to_df
ExtractEntry ==
    /\ pc = "pc_check"
    /\ conversations_data # <<>>
    /\ conv_index' = 1
    /\ conversation_records' = <<>>
    /\ message_records' = <<>>
    /\ pc' = "pc_extract"
    /\ UNCHANGED <<walkVars, writeVars, titleVars>>
    /\ UNCHANGED <<archive, db_fault, conversations_data, db, files,
                   outcome, returned>>

\* lines 143-168: one conversation of the for loop
ExtractConversation ==
    /\ pc = "pc_extract"
    /\ conv_index <= Len(conversations_data)
    /\ LET nxt == ExtractOne(conversations_data[conv_index],
                             conversation_records, message_records)
       IN  /\ conversation_records' = nxt.conversation_records
           /\ message_records' = nxt.message_records
    /\ conv_index' = conv_index + 1
    /\ UNCHANGED <<pc, walkVars, writeVars, titleVars>>
    /\ UNCHANGED <<archive, db_fault, conversations_data, db, files,
                   outcome, returned>>

\* lines 170-173: the loop is over, the two data frames are returned
ExtractReturn ==
    /\ pc = "pc_extract"
    /\ conv_index > Len(conversations_data)
    /\ pc' = "pc_save_db"
    /\ UNCHANGED <<walkVars, runVars, writeVars, titleVars>>

\* line 233, and lines 241-243 when save_to_database raises
SaveToDatabase ==
    /\ pc = "pc_save_db"
    /\ LET res == save_to_database(conversation_records, message_records, db, db_fault)
       IN  /\ db' = res.db
           /\ IF res.raised
              THEN /\ outcome' = ExceptClause.outcome
                   /\ returned' = ExceptClause.returned
                   /\ pc' = "pc_done"
              ELSE /\ pc' = "pc_save_files"
                   /\ UNCHANGED <<outcome, returned>>
    /\ UNCHANGED <<walkVars, writeVars, titleVars>>
    /\ UNCHANGED <<archive, db_fault, conversations_data, conv_index,
                   conversation_records, message_records, files>>

\* lines 235-239: the name save_conversation_files is defined nowhere, so the call
\* raises NameError before any file is touched; lines 241-243 catch it
SaveConversationFiles ==
    /\ pc = "pc_save_files"
    /\ outcome' = ExceptClause.outcome
    /\ returned' = ExceptClause.returned
    /\ pc' = "pc_done"
    /\ UNCHANGED <<walkVars, writeVars, titleVars>>
    /\ UNCHANGED <<archive, db_fault, conversations_data, conv_index,
                   conversation_records, message_records, db, files>>

NextRun ==
    \/ LoadJson
    \/ ReturnNoData
    \/ ExtractEntry
    \/ ExtractConversation
    \/ ExtractReturn
    \/ SaveToDatabase
    \/ SaveConversationFiles

Spec == InitRun /\ [][NextRun]_vars

-----------------------------------------------------------------------------
(* Properties of the record shaper and of the run *)

\* extract_conversations_to_df has returned in this run
ExtractDone ==
    /\ pc \in {"pc_save_db", "pc_save_files", "pc_done"}
    /\ conversations_data # <<>>

RunDone == pc = "pc_done"

HasUpdateTime(conv) == "update_time" \in DOMAIN conv

\* the conversations of the input that carry an update timestamp, in input order
Stamped(data) == SelectSeq(data, HasUpdateTime)

\* the record the specification describes for a conversation with a timestamp
StatedConversationRecord(conv) ==
    [conversation_id |-> Get(conv, "id", "Unknown"),
     title |-> Get(conv, "title", "Untitled"),
     create_time |-> FromTimestamp(Get(conv, "create_time", 0)),
     update_time |-> FromTimestamp(conv["update_time"])]

\* the tree-walk output of each conversation in turn, tagged with its id
RECURSIVE StatedMessageRecords(_)
StatedMessageRecords(convs) ==
    IF convs = <<>> THEN <<>>
    ELSE LET walk == get_conversation_messages(Head(convs))
         IN  [i \in 1..Len(walk) |->
                 walk[i] @@ ("conversation_id" :> Get(Head(convs), "id", "Unknown"))]
             \o StatedMessageRecords(Tail(convs))

\* C3: one conversation-record for each conversation with a present update
\* timestamp, whatever its value, in input order; the message-records are the
\* tree-walk outputs of those conversations, in order, each with the conversation id.
C3_RecordPerStampedConversation ==
    ExtractDone =>
        /\ conversation_records =
              [i \in 1..Len(Stamped(conversations_data)) |->
                  StatedConversationRecord(Stamped(conversations_data)[i])]
        /\ message_records = StatedMessageRecords(Stamped(conversations_data))

\* C4: conversations lacking update_time are skipped silently: the records (and the
\* tables written from them) are those of the input with these conversations
\* removed, there are no more conversation rows and transcript files than
\* conversations with a timestamp, and no error is raised.
C4_LackingUpdateTimeSkipped ==
    LET kept == Stamped(conversations_data)
        out == extract_conversations_to_df(kept)
    IN  /\ outcome # "raised"
        /\ ExtractDone =>
              /\ conversation_records = out.conversation_records
              /\ message_records = out.message_records
              /\ Len(conversation_records) <= Len(kept)
              /\ Cardinality(files) <= Len(kept)
              /\ kept = <<>> => (conversation_records = <<>> /\ message_records = <<>>)
        /\ (ExtractDone /\ RunDone /\ db_fault = "none") =>
              db = [conversations |-> out.conversation_records,
                    messages |-> out.message_records]

\* a run over a conversation without update_time followed by a complete one
C4_Witness ==
    /\ RunDone
    /\ db_fault = "none"
    /\ Len(conversations_data) = 2
    /\ ~HasUpdateTime(conversations_data[1])
    /\ "mapping" \in DOMAIN conversations_data[1]
    /\ UpdatedIsTruthy(conversations_data[2])
    /\ Len(db.conversations) = 1
    /\ Len(db.messages) = 2

\* C5: on a loadable archive, with no database or file failure, the run returns one
\* entry for each conversation whose transcript was written (each conversation
\* record has one), so the result is empty only after a failure.
C5_EntryPerTranscript ==
    (RunDone /\ archive.status = "ok" /\ db_fault = "none")
        => Len(returned) = Len(conversation_records)

\* C6: process_conversations never propagates an exception; after a load failure or
\* a database failure it returns the empty list; after a load failure neither
\* table has been replaced and no transcript file has been written.
C6_NeverPropagates ==
    /\ outcome # "raised"
    /\ RunDone => outcome = "returned"
    /\ (RunDone /\ (archive.status # "ok" \/ db_fault # "none")) => returned = <<>>
    /\ archive.status # "ok" => (db = OldDb /\ files = {})

\* a run whose second table write failed: the exception was caught
C6_Witness ==
    /\ RunDone
    /\ db_fault = "messages"
    /\ conversation_records # <<>>
    /\ db.conversations = conversation_records
    /\ db.messages = OldDb.messages
    /\ outcome = "returned"
    /\ returned = <<>>

-----------------------------------------------------------------------------
(* write_messages_to_file *)

\* strings that are written to the file are sequences of characters
NL == "\n"

MaxMessages == 2
MaxTextLen == 2

TextChars == {"a", NL}

\* the texts of qualifying messages: never empty
Texts == UNION {[1..k -> TextChars] : k \in 1..MaxTextLen}

\* display names: of "user", of an absent role, and of a role holding a line break
Authors == {<<"u", "s", "e", "r">>, <<>>, <<"x", NL, "y">>}

WriterMessages == [author : Authors, text : Texts]

IsWriterInput(msgs) ==
    \E k \in 0..MaxMessages : \E ms \in [1..k -> WriterMessages] : msgs = ms

\* the write that leaves out the newline after the text
WriteOneNoNewline(text, message) ==
    text \o message.author \o <<NL>> \o message.text

\* lines 134-135: the two writes of one message
WriteOne(text, message) ==
    text \o (message.author \o <<NL>>) \o (message.text \o <<NL>>)

InitWrite ==
    /\ pc = "wmf_open"
    /\ IsWriterInput(file_messages)
    /\ write_index = 1
    /\ file_text \in {<<>>, <<"o", "l", "d", NL>>}
    /\ WalkIdle
    /\ RunIdle
    /\ TitleIdle

\* line 132: open for writing truncates the file
WriteOpen ==
    /\ pc = "wmf_open"
    /\ file_text' = <<>>
    /\ write_index' = 1
    /\ pc' = "wmf_loop"
    /\ UNCHANGED <<file_messages, walkVars, runVars, titleVars>>

\* lines 133-135: one message of the for loop
WriteMessage ==
    /\ pc = "wmf_loop"
    /\ write_index <= Len(file_messages)
    /\ file_text' = WriteOne(file_text, file_messages[write_index])
    /\ write_index' = write_index + 1
    /\ UNCHANGED <<pc, file_messages, walkVars, runVars, titleVars>>

\* the loop is over, the with block closes the file
WriteClose ==
    /\ pc = "wmf_loop"
    /\ write_index > Len(file_messages)
    /\ pc' = "wmf_done"
    /\ UNCHANGED <<walkVars, runVars, writeVars, titleVars>>

NextWrite == WriteOpen \/ WriteMessage \/ WriteClose

WriteSpec == InitWrite /\ [][NextWrite]_vars

WriteDone == pc = "wmf_done"

\* the lines of a text: the characters before each newline, and what follows the
\* last newline when that is not empty
RECURSIVE LinesFrom(_, _)
LinesFrom(text, line) ==
    IF text = <<>> THEN (IF line = <<>> THEN <<>> ELSE <<line>>)
    ELSE IF Head(text) = NL THEN <<line>> \o LinesFrom(Tail(text), <<>>)
    ELSE LinesFrom(Tail(text), Append(line, Head(text)))

Lines(text) == LinesFrom(text, <<>>)

\* author 1, text 1, author 2, text 2, ...
AuthorTextLines(msgs) ==
    [j \in 1..(2 * Len(msgs)) |->
        IF j % 2 = 1 THEN msgs[(j + 1) \div 2].author ELSE msgs[j \div 2].text]

HasLineBreak(str) == \E i \in 1..Len(str) : str[i] = NL

NoLineBreaks(msgs) ==
    \A i \in 1..Len(msgs) : ~HasLineBreak(msgs[i].author) /\ ~HasLineBreak(msgs[i].text)

RECURSIVE Rendered(_)
Rendered(msgs) ==
    IF msgs = <<>> THEN <<>>
    ELSE Head(msgs).author \o <<NL>> \o Head(msgs).text \o <<NL>> \o Rendered(Tail(msgs))

\* C7 as stated: the transcript of N messages has exactly 2N lines, line 2i-1 the
\* author and line 2i the text of message i.
C7_TwoLinesPerMessage ==
    WriteDone => Lines(file_text) = AuthorTextLines(file_messages)

\* C7 as amended: the transcript is, message by message in order, the author, a
\* newline, the text, a newline, and nothing else; it has exactly 2N lines, line
\* 2i-1 the author and line 2i the text of message i, when no author and no text
\* holds a line break.
C7_TwoLinesWithoutLineBreaks ==
    WriteDone =>
        /\ file_text = Rendered(file_messages)
        /\ NoLineBreaks(file_messages) =>
              /\ Len(Lines(file_text)) = 2 * Len(file_messages)
              /\ Lines(file_text) = AuthorTextLines(file_messages)

\* two messages without line breaks were written over an older transcript
C7_Witness ==
    /\ WriteDone
    /\ Len(file_messages) = 2
    /\ NoLineBreaks(file_messages)
    /\ file_messages[1].author = <<>>
    /\ Len(Lines(file_text)) = 4

-----------------------------------------------------------------------------
(* sanitize_title *)

\* titles are sequences of characters; the characters of the model are named:
\*   "FULLWIDTH_LT"  U+FF1C, compatibility equivalent of "<"
\*   "NBSP"          U+00A0, compatibility equivalent of the space
\*   "LIG_FI"        U+FB01, compatibility equivalent of "f" "i"
\*   "COMB_SOLIDUS"  U+0338, combining long solidus overlay
\*   "NOT_LT"        U+226E, canonical composition of "<" U+0338
\*   "TAB"           U+0009, "DEL" U+007F, "SPACE" U+0020

TitleMax == 140

MaxPrefix == 1
MaxSuffix == 2

TitleChars ==
    {"a", "<", "FULLWIDTH_LT", "NBSP", "LIG_FI", "COMB_SOLIDUS", "TAB", "DEL"}

Pad(n) == [i \in 1..n |-> "a"]

\* short titles, and titles whose end lies around the 140th character
IsTitle(t) ==
    \E i \in 0..MaxPrefix, j \in 0..MaxSuffix :
        \E pre \in [1..i -> TitleChars], suf \in [1..j -> TitleChars] :
            \E n \in {0, TitleMax - 2, TitleMax - 1, TitleMax} :
                t = pre \o Pad(n) \o suf

\* the compatibility decomposition of a character
Decompose(c) ==
    CASE c = "FULLWIDTH_LT" -> <<"<">>
      [] c = "NBSP" -> <<"SPACE">>
      [] c = "LIG_FI" -> <<"f", "i">>
      [] c = "NOT_LT" -> <<"<", "COMB_SOLIDUS">>
      [] OTHER -> <<c>>

\* the decompositions of the characters of str, joined (by halves)
RECURSIVE DecomposeAll(_)
DecomposeAll(str) ==
    IF str = <<>> THEN <<>>
    ELSE IF Len(str) = 1 THEN Decompose(str[1])
    ELSE LET half == Len(str) \div 2
         IN  DecomposeAll(SubSeq(str, 1, half))
                 \o DecomposeAll(SubSeq(str, half + 1, Len(str)))

IsKept(c) == c # "<composed>"

\* canonical composition: a "<" followed by the mark U+0338 becomes U+226E, and
\* the mark is gone
ComposeAll(str) ==
    LET composes(i) == i < Len(str) /\ str[i] = "<" /\ str[i + 1] = "COMB_SOLIDUS"
        marked == [i \in 1..Len(str) |->
                      IF composes(i) THEN "NOT_LT"
                      ELSE IF i > 1 /\ composes(i - 1) THEN "<composed>"
                      ELSE str[i]]
    IN  SelectSeq(marked, IsKept)

\* line 108: unicodedata.normalize("NFKC", title)
NFKC(str) == ComposeAll(DecomposeAll(str))

\* the character class of line 109: < > : " / \ | ? * \x00-\x1F \s
InClass(c) ==
    c \in {"<", ">", ":", "QUOTE", "/", "BACKSLASH", "|", "?", "*",
           "TAB", "SPACE", "NBSP"}

\* line 109: re.sub(class, '_', title)
Substitute(str) == [i \in 1..Len(str) |-> IF InClass(str[i]) THEN "_" ELSE str[i]]

Truncate(str, n) == IF Len(str) <= n THEN str ELSE SubSeq(str, 1, n)

\* a sanitizer that cuts the title before it normalizes it
sanitize_title_cut_first(t) == Substitute(NFKC(Truncate(t, TitleMax)))

\* lines 107-110
sanitize_title(t) == Truncate(Substitute(NFKC(t)), TitleMax)

InitTitle ==
    /\ pc = "st_first"
    /\ IsTitle(title)
    /\ once = <<>>
    /\ twice = <<>>
    /\ WalkIdle
    /\ RunIdle
    /\ WriteIdle

\* sanitize_title applied to the title
SanitizeFirst ==
    /\ pc = "st_first"
    /\ once' = sanitize_title(title)
    /\ pc' = "st_second"
    /\ UNCHANGED <<title, twice, walkVars, runVars, writeVars>>

\* sanitize_title applied to its own result
SanitizeSecond ==
    /\ pc = "st_second"
    /\ twice' = sanitize_title(once)
    /\ pc' = "st_done"
    /\ UNCHANGED <<title, once, walkVars, runVars, writeVars>>

NextTitle == SanitizeFirst \/ SanitizeSecond

TitleSpec == InitTitle /\ [][NextTitle]_vars

TitleDone == pc = "st_done"

CharsOf(str) == {str[i] : i \in 1..Len(str)}

\* < > : " / \ | ? * and the whitespace characters
Reserved ==
    {"<", ">", ":", "QUOTE", "/", "BACKSLASH", "|", "?", "*", "TAB", "SPACE", "NBSP"}

\* the ASCII control characters: U+0000 to U+001F, and U+007F
AsciiControls == {"TAB", "DEL"}

\* the control characters U+0000 to U+001F
C0Controls == {"TAB"}

\* C9 as stated: sanitize_title is idempotent, its result has at most 140
\* characters and holds none of < > : " / \ | ? *, no ASCII control character and
\* no whitespace.
C9_IdempotentAndClean ==
    TitleDone =>
        /\ twice = once
        /\ Len(once) <= 140
        /\ CharsOf(once) \cap (Reserved \cup AsciiControls) = {}

\* C9 as amended: the same, with the control characters U+0000 to U+001F in place
\* of every ASCII control character (U+007F DELETE is kept).
C9_IdempotentAndCleanOfC0 ==
    TitleDone =>
        /\ twice = once
        /\ Len(once) <= 140
        /\ CharsOf(once) \cap (Reserved \cup C0Controls) = {}

\* a title longer than 140 characters that ends in a ligature, with a character
\* of the class in it
C9_Witness ==
    /\ TitleDone
    /\ Len(title) > TitleMax
    /\ title[Len(title)] = "LIG_FI"
    /\ Len(once) = TitleMax
    /\ "_" \in CharsOf(once)
    /\ once # Truncate(title, TitleMax)

=============================================================================
